---------------------------- MODULE Spec2Model ----------------------------
(***************************************************************************)
(* Model of the agents_manager turn loop: AgentManager (registry,          *)
(* add_agent, get_agent, run_agent, run_agent_stream) over Agent objects   *)
(* whose conversation history lives in their backend adapter (Model).      *)
(*                                                                         *)
(* Python lists are objects: `heap` holds the list objects, an adapter's   *)
(* `messages` attribute and a frame's `current_messages` local are         *)
(* references into it, so an in-place append (list.append) is seen by      *)
(* every holder of the reference while set_messages only rebinds one.      *)
(* The adapter base class keeps the list it is given and hands the same    *)
(* list back (set_messages / get_messages store and return a reference).   *)
(* Every Agent owns its adapter (one adapter per agent object).            *)
(***************************************************************************)
EXTENDS Integers, Sequences, FiniteSets, TLC

\* ------------------------------------------------------------------ bounds
\* interpreter recursion limit, scaled down: deepest nesting of run_agent
MaxDepth == 2
\* the caller registers agents only while the registry is shorter than this
MaxRegistry == 2
\* the caller starts a turn only while the registered agents hold fewer than
\* this many messages beyond their seeds
MaxHistory == 1

\* ------------------------------------------------------------------ values
NoneV == "<None>"            \* Python None where a text may stand
NoAgent == 0                 \* Python None where an Agent may stand
NotAnAgent == 99             \* some object that is not an Agent instance

AgentIds == {1, 2, 3}        \* the Agent objects the caller constructed
ToolIds == {1, 2, 3, 4, 5, 6}

\* str(int) for the small non-negative integers tools return
Digit(d) == CASE d = 0 -> "0" [] d = 1 -> "1" [] d = 2 -> "2" [] d = 3 -> "3"
              [] d = 4 -> "4" [] d = 5 -> "5" [] d = 6 -> "6" [] d = 7 -> "7"
              [] d = 8 -> "8" [] OTHER -> "9"

RECURSIVE IntToStr(_)
IntToStr(n) == IF n < 10 THEN Digit(n) ELSE IntToStr(n \div 10) \o Digit(n % 10)

\* a tool's return value: text, an integer, or an Agent object
StrVal(s) == [kind |-> "str", text |-> s, num |-> 0, agent |-> NoAgent]
IntVal(n) == [kind |-> "int", text |-> "", num |-> n, agent |-> NoAgent]
AgentVal(a) == [kind |-> "agent", text |-> "", num |-> 0, agent |-> a]

\* str(tool_result)
ToStr(v) == IF v.kind = "int" THEN IntToStr(v.num) ELSE v.text

\* The entries of the agents' tool lists.  Entries 1 and 2 are two distinct
\* functions with the same __name__; entry 6 is an object that is not callable
\* and has no __name__.
Tool(t) ==
    CASE t = 1 -> [callable |-> TRUE, name |-> "lookup", ret |-> StrVal("sunny")]
      [] t = 2 -> [callable |-> TRUE, name |-> "lookup", ret |-> IntVal(42)]
      [] t = 3 -> [callable |-> TRUE, name |-> "transfer", ret |-> AgentVal(2)]
      [] t = 4 -> [callable |-> TRUE, name |-> "transfer", ret |-> AgentVal(1)]
      [] t = 5 -> [callable |-> TRUE, name |-> "handoff", ret |-> AgentVal(3)]
      [] OTHER -> [callable |-> FALSE, name |-> NoneV, ret |-> StrVal("")]

\* Agent.__init__: name, instruction, tools of each constructed Agent.
\* Agents 2 and 3 carry the same name.
AgentObj(a) ==
    CASE a = 1 -> [name |-> "a", instruction |-> "ia", tools |-> <<1, 2, 3, 5>>]
      [] a = 2 -> [name |-> "b", instruction |-> "", tools |-> <<4>>]
      [] OTHER -> [name |-> "b", instruction |-> "ix", tools |-> <<1, 6>>]

\* what the caller may pass as `model`: an instance of a Model subclass that no
\* other agent holds, None, or an object that is no Model; Absent marks an
\* Agent object that does not exist (yet)
AModel == "Model"
NotAModel == "object"
Absent == "absent"
ModelArgs == {AModel, NoneV, NotAModel}

Names == {"a", "b", "ghost"}
Inputs == {NoneV, "", "hi"}

\* ---------------------------------------------------------------- messages
ToolCall(id, name, arguments) == [id |-> id, name |-> name, arguments |-> arguments]

Msg(role, content, tool_call_id, tool_calls) ==
    [role |-> role, content |-> content, tool_call_id |-> tool_call_id,
     tool_calls |-> tool_calls]

UserMsg(text) == Msg("user", text, NoneV, <<>>)
ToolMsg(id, content) == Msg("tool", content, id, <<>>)

\* ---------------------------------------------------------------- backend
\* What an adapter's generate_response may return.  attr: the result exposes
\* tool_calls and content as attributes; choices: it exposes
\* choices[0].message.content.  A keyed result (a dict) exposes neither.
Response(attr, choices, tool_calls, content) ==
    [attr |-> attr, choices |-> choices, tool_calls |-> tool_calls, content |-> content]

NoResp == Response(FALSE, FALSE, <<>>, NoneV)

\* OpenAi.generate_response: the keyed result {tool_calls, content}
KeyedResult(tool_calls, content) == Response(FALSE, FALSE, tool_calls, content)

Responses ==
    { Response(TRUE, TRUE, <<>>, "ok"),
      KeyedResult(<<ToolCall("c1", "lookup", "{}")>>, NoneV),
      Response(TRUE, TRUE, <<ToolCall("c1", "lookup", "{}")>>, NoneV),
      Response(TRUE, TRUE, <<ToolCall("c1", "nope", "{}"),
                             ToolCall("c2", "lookup", "{\"city\":\"Rome\"}")>>, "x"),
      Response(TRUE, TRUE, <<ToolCall("c1", "transfer", "{}")>>, ""),
      Response(TRUE, FALSE, <<ToolCall("c1", "handoff", "{}")>>, NoneV),
      Response(TRUE, TRUE, <<ToolCall("c1", "handoff", "{}"),
                             ToolCall("c2", "lookup", "{")>>, NoneV) }

\* json.loads on the argument payloads the backend produces: the well-formed
\* payloads decode, anything else raises
JsonOk(arguments) == arguments \in {"{}", "{\"city\":\"Rome\"}"}

\* ------------------------------------------------------------------- state
VARIABLES
    agents,     \* AgentManager.agents: the registry, a list of Agent objects
    heap,       \* the message-list objects
    messages,   \* per agent, its adapter's messages: a heap reference, 0 = None
    kwargs,     \* per agent, the 'tools' entry of its adapter's options
    adapter,    \* per agent, Agent.model: what the object holds as its adapter
    stack,      \* the active run_agent calls, outermost first
    outcome,    \* what the caller's last call did: returned value or error
    trace,      \* history variable: the events of the current caller's call
    pre         \* history variable: the program state when that call was made

vars == <<agents, heap, messages, kwargs, adapter, stack, outcome, trace, pre>>

\* the program state as one value, so that the steps of a handler compose
St == [agents |-> agents, heap |-> heap, messages |-> messages, kwargs |-> kwargs,
       adapter |-> adapter, stack |-> stack, outcome |-> outcome, trace |-> trace]

Commit(s) ==
    \E t \in {s} :
        /\ agents' = t.agents
        /\ heap' = t.heap
        /\ messages' = t.messages
        /\ kwargs' = t.kwargs
        /\ adapter' = t.adapter
        /\ stack' = t.stack
        /\ outcome' = t.outcome
        /\ trace' = t.trace

\* Agent.get_messages: the adapter's list (here its content; <<>> for None)
Hist(s, a) == IF s.messages[a] = 0 THEN <<>> ELSE s.heap[s.messages[a]]

Ev(ev, frame, agent, call, tool, hist, resp) ==
    [ev |-> ev, frame |-> frame, agent |-> agent, call |-> call, tool |-> tool,
     hist |-> hist, resp |-> resp]

Log(s, e) == [s EXCEPT !.trace = Append(@, e)]

NoError == [type |-> NoneV, text |-> NoneV, arg |-> NoneV]
Error(type, text, arg) == [type |-> type, text |-> text, arg |-> arg]

Outcome(op, status, value, err) ==
    [op |-> op, status |-> status, value |-> value, stream |-> FALSE, err |-> err]

Snapshot(s, op, name, input) ==
    [op |-> op, name |-> name, input |-> input, agents |-> s.agents,
     hist |-> [a \in AgentIds |-> Hist(s, a)],
     set |-> {a \in AgentIds : s.messages[a] # 0},
     adapter |-> s.adapter]

\* ------------------------------------------------------------ list objects
\* a new list object with the given content; its reference is Len(heap)
Alloc(s, msgs) == [s EXCEPT !.heap = Append(@, msgs)]

\* Agent.set_messages / Model.set_messages: rebind the adapter's messages
set_messages(s, a, ref) == [s EXCEPT !.messages[a] = ref]

\* list.append on the list object ref
ListAppend(s, ref, m) == [s EXCEPT !.heap[ref] = Append(@, m)]

\* Between two calls of the caller no frame holds a reference, so the list
\* objects are renumbered: agent a's list, if any, becomes object a.
MaxAgentId == CHOOSE m \in AgentIds : \A a \in AgentIds : a <= m

Canon(s) ==
    [s EXCEPT !.heap = [a \in 1..MaxAgentId |-> IF a \in AgentIds THEN Hist(s, a) ELSE <<>>],
              !.messages = [a \in AgentIds |-> IF s.messages[a] = 0 THEN 0 ELSE a]]

\* an exception nobody catches: every active run_agent call is abandoned
Raise(s, err) ==
    Canon([s EXCEPT !.stack = <<>>,
                    !.outcome = Outcome(s.outcome.op, "error", NoResp, err)])

\* ---------------------------------------------------------------- registry
\* function_to_json(tool, format): the serialized descriptor of a callable
function_to_json(t) == [type |-> "function", name |-> Tool(t).name]

\* Agent.set_tools: the descriptors of the entries that are callable
RECURSIVE JsonTools(_)
JsonTools(tools) ==
    IF tools = <<>> THEN <<>>
    ELSE IF Tool(Head(tools)).callable
         THEN <<function_to_json(Head(tools))>> \o JsonTools(Tail(tools))
         ELSE JsonTools(Tail(tools))

set_tools(s, a, tools) ==
    [s EXCEPT !.kwargs[a] = [has_tools |-> TRUE, tools |-> JsonTools(tools)]]

\* SeedMessages with the instruction seeded under the system role
SeedMessagesAsSystem(a) == <<Msg("system", AgentObj(a).instruction, NoneV, <<>>)>>

\* the history add_agent gives an agent
SeedMessages(a) == <<Msg("assistant", AgentObj(a).instruction, NoneV, <<>>)>>

\* add_agent leaving the registry alone when the agent is already in it
add_agent_once(s, a) ==
    LET s1 == IF \E k \in 1..Len(s.agents) : s.agents[k] = a
              THEN s
              ELSE [s EXCEPT !.agents = Append(@, a)]
        s2 == Alloc(s1, SeedMessages(a))
        s3 == set_messages(s2, a, Len(s2.heap))
        s4 == set_tools(s3, a, AgentObj(a).tools)
    IN  Log(s4, Ev("add", Len(s.stack), a, 0, 0, Hist(s4, a), NoResp))

\* AgentManager.add_agent for an Agent instance
add_agent(s, a) ==
    LET s1 == [s EXCEPT !.agents = Append(@, a)]
        s2 == Alloc(s1, SeedMessages(a))
        s3 == set_messages(s2, a, Len(s2.heap))
        s4 == set_tools(s3, a, AgentObj(a).tools)
    IN  Log(s4, Ev("add", Len(s.stack), a, 0, 0, Hist(s4, a), NoResp))

\* get_agent falling back to the first registered agent when no name matches
get_agent_or_first(reg, name) ==
    LET idx == {i \in 1..Len(reg) : AgentObj(reg[i]).name = name}
    IN  IF idx = {} THEN (IF reg = <<>> THEN NoAgent ELSE reg[1])
        ELSE reg[CHOOSE i \in idx : \A j \in idx : i <= j]

\* AgentManager.get_agent: the first registered agent with that name
get_agent(reg, name) ==
    LET idx == {i \in 1..Len(reg) : AgentObj(reg[i]).name = name}
    IN  IF idx = {} THEN NoAgent
        ELSE reg[CHOOSE i \in idx : \A j \in idx : i <= j]

\* --------------------------------------------------------------- run_agent
\* One frame per active run_agent call.  pc: "start" before the body has run,
\* "dispatch" inside the loop over the tool calls (before tool number ti of
\* call number ci), "awaiting" while the nested run_agent it made is active.
Frame(id, name, input) ==
    [id |-> id, name |-> name, input |-> input, agent |-> NoAgent, pc |-> "start",
     resp |-> NoResp, cur |-> 0, ci |-> 1, ti |-> 1]

\* the serial number the next frame of this caller's call gets
NextFrameId(s) == Cardinality({i \in 1..Len(s.trace) : s.trace[i].ev = "call"}) + 1

\* `if user_input:`
UserInputGiven(user_input) == user_input \notin {NoneV, ""}

\* EntersToolBranch without the test that the list of tool calls is non-empty
EntersToolBranchOnAttr(response) == response.attr

\* `if hasattr(response, 'tool_calls') and response.tool_calls:`
EntersToolBranch(response) == response.attr /\ response.tool_calls # <<>>

\* the content of the response taken as it is
ContentAsIs(content) == content

\* `response.content or ""`
ContentOrEmpty(content) == IF content = NoneV THEN "" ELSE content

\* the assistant message run_agent reconstructs from the response
RECURSIVE ToolCallsMeta(_)
ToolCallsMeta(tool_calls) ==
    IF tool_calls = <<>> THEN <<>>
    ELSE <<[id |-> Head(tool_calls).id, type |-> "function",
            name |-> Head(tool_calls).name,
            arguments |-> Head(tool_calls).arguments]>>
         \o ToolCallsMeta(Tail(tool_calls))

AssistantMessage(response) ==
    Msg("assistant", ContentOrEmpty(response.content), NoneV,
        ToolCallsMeta(response.tool_calls))

NotFound(name) == Error("ValueError", "No agent found with name: ", name)
MessagesNotSet == Error("ValueError", "Messages must be set before generating a response", NoneV)
StreamNotSet == Error("ValueError", "Messages must be set before generating a stream", NoneV)

\* `return` of the innermost run_agent call with value r: to the caller, or
\* to the run_agent call that made it, which reads choices[0].message.content
\* and appends the tool message to its current_messages
Return(s, r) ==
    LET d == Len(s.stack)
        f == s.stack[d]
        s0 == Log(s, Ev("ret", f.id, f.agent, 0, 0, <<>>, r))
    IN  IF d = 1
        THEN Canon([s0 EXCEPT !.stack = <<>>,
                              !.outcome = Outcome(s.outcome.op, "ok", r, NoError)])
        ELSE LET p == s0.stack[d - 1]
                 call == p.resp.tool_calls[p.ci]
             IN  IF ~r.choices
                 THEN Raise(s0, Error("AttributeError", "choices", NoneV))
                 ELSE ListAppend(
                        [s0 EXCEPT !.stack = SubSeq(s0.stack, 1, d - 2)
                                     \o <<[p EXCEPT !.pc = "dispatch", !.ti = @ + 1]>>],
                        p.cur, ToolMsg(call.id, r.content))

\* run_agent from its entry to the first response r: resolve the name, append
\* the user message, generate, and either return r or enter the tool branch
run_start(s, r) ==
    LET d == Len(s.stack)
        f == s.stack[d]
        a == get_agent(s.agents, f.name)
    IN  IF a = NoAgent THEN Raise(s, NotFound(f.name))
        ELSE
        LET s1 == IF UserInputGiven(f.input)
                  THEN LET n == Alloc(s, Hist(s, a) \o <<UserMsg(f.input)>>)
                       IN  set_messages(n, a, Len(n.heap))
                  ELSE s
        IN  IF s1.messages[a] = 0 THEN Raise(s1, MessagesNotSet)
            ELSE
            LET s2 == Log(s1, Ev("gen", f.id, a, 0, 0, Hist(s1, a), r))
                s3 == [s2 EXCEPT !.stack[d].agent = a, !.stack[d].resp = r]
            IN  IF EntersToolBranch(r)
                THEN ListAppend(
                       [s3 EXCEPT !.stack[d].pc = "dispatch",
                                  !.stack[d].cur = s3.messages[a]],
                       s3.messages[a], AssistantMessage(r))
                ELSE Return(s3, r)

\* the loop `for tool in tools:` of the innermost frame from tool number ti on,
\* up to the end of the tools or to the nested run_agent a returned Agent causes
RECURSIVE Scan(_, _)
Scan(s, ti) ==
    LET d == Len(s.stack)
        f == s.stack[d]
        call == f.resp.tool_calls[f.ci]
        tools == AgentObj(f.agent).tools
    IN  IF ti > Len(tools)
        THEN [s EXCEPT !.stack[d].ci = @ + 1, !.stack[d].ti = 1]
        ELSE
        LET t == tools[ti] IN
        IF Tool(t).name = NoneV
        THEN Raise(s, Error("AttributeError", "__name__", NoneV))
        ELSE IF Tool(t).name # call.name THEN Scan(s, ti + 1)
        ELSE
        LET s1 == Log(s, Ev("tool", f.id, f.agent, f.ci, t, s.heap[f.cur], NoResp))
            v == Tool(t).ret
        IN  IF v.kind = "agent"
            THEN LET s2 == add_agent(s1, v.agent)
                     s3 == Log(s2, Ev("call", NextFrameId(s2), v.agent, 0, 0, <<>>, NoResp))
                 IN  IF d >= MaxDepth
                     THEN Raise(s2, Error("RecursionError", "maximum recursion depth exceeded", NoneV))
                     ELSE [s3 EXCEPT !.stack =
                             SubSeq(s3.stack, 1, d - 1)
                             \o <<[f EXCEPT !.pc = "awaiting", !.ti = ti]>>
                             \o <<Frame(NextFrameId(s2), AgentObj(v.agent).name, f.input)>>]
            ELSE Scan(ListAppend(s1, f.cur, ToolMsg(call.id, ToStr(v))), ti + 1)

\* dispatch that goes on to the tools whatever the payload is
dispatch_lenient(s) == Scan(s, s.stack[Len(s.stack)].ti)

\* a tool call whose tool never returns
dispatch_never(s) == s

\* one tool call of the response: json.loads of its payload, then the tools
dispatch(s) ==
    LET d == Len(s.stack)
        f == s.stack[d]
        call == f.resp.tool_calls[f.ci]
    IN  IF f.ti = 1 /\ ~JsonOk(call.arguments)
        THEN Raise(s, Error("JSONDecodeError", call.arguments, NoneV))
        ELSE Scan(s, f.ti)

\* finish resolving the tool calls of the second response too, in a loop
finish_and_loop(s, r) ==
    LET d == Len(s.stack)
        f == s.stack[d]
        s1 == set_messages(s, f.agent, f.cur)
        s2 == Log(s1, Ev("gen", f.id, f.agent, 0, 0, Hist(s1, f.agent), r))
    IN  IF (r.attr /\ r.tool_calls # <<>>)
        THEN ListAppend([s2 EXCEPT !.stack[d].resp = r, !.stack[d].ci = 1,
                                   !.stack[d].ti = 1],
                        f.cur, AssistantMessage(r))
        ELSE Return(s2, r)

\* after the loop: agent.set_messages(current_messages); return agent.get_response()
finish(s, r) ==
    LET d == Len(s.stack)
        f == s.stack[d]
        s1 == set_messages(s, f.agent, f.cur)
        s2 == Log(s1, Ev("gen", f.id, f.agent, 0, 0, Hist(s1, f.agent), r))
    IN  Return(s2, r)

\* run_agent_stream treating the streamed result as run_agent treats a response
run_agent_stream_intercepting(s, name, input, r) ==
    LET a == get_agent(s.agents, name)
    IN  IF a = NoAgent THEN Raise(s, NotFound(name))
        ELSE
        LET s1 == IF UserInputGiven(input)
                  THEN LET n == Alloc(s, Hist(s, a) \o <<UserMsg(input)>>)
                       IN  set_messages(n, a, Len(n.heap))
                  ELSE s
        IN  IF s1.messages[a] = 0 THEN Raise(s1, StreamNotSet)
            ELSE
            LET s2 == Log(s1, Ev("stream", 1, a, 0, 0, Hist(s1, a), r))
                s3 == IF EntersToolBranch(r)
                      THEN ListAppend(s2, s2.messages[a], AssistantMessage(r))
                      ELSE s2
            IN  Canon([s3 EXCEPT !.outcome =
                         [Outcome(s.outcome.op, "ok", r, NoError) EXCEPT !.stream = TRUE]])

\* AgentManager.run_agent_stream, whole: r is what the stream will carry
run_agent_stream(s, name, input, r) ==
    LET a == get_agent(s.agents, name)
    IN  IF a = NoAgent THEN Raise(s, NotFound(name))
        ELSE
        LET s1 == IF UserInputGiven(input)
                  THEN LET n == Alloc(s, Hist(s, a) \o <<UserMsg(input)>>)
                       IN  set_messages(n, a, Len(n.heap))
                  ELSE s
        IN  IF s1.messages[a] = 0 THEN Raise(s1, StreamNotSet)
            ELSE
            LET s2 == Log(s1, Ev("stream", 1, a, 0, 0, Hist(s1, a), r))
            IN  Canon([s2 EXCEPT !.outcome =
                         [Outcome(s.outcome.op, "ok", r, NoError) EXCEPT !.stream = TRUE]])

\* ----------------------------------------------------------------- actions
Init ==
    /\ agents = <<>>
    /\ heap = [a \in 1..MaxAgentId |-> <<>>]
    /\ messages = [a \in AgentIds |-> 0]
    /\ kwargs = [a \in AgentIds |-> [has_tools |-> FALSE, tools |-> <<>>]]
    /\ adapter = [a \in AgentIds |-> AModel]
    /\ stack = <<>>
    /\ outcome = Outcome("none", "none", NoResp, NoError)
    /\ trace = <<>>
    /\ pre = [op |-> "none", name |-> NoneV, input |-> NoneV, agents |-> <<>>,
              hist |-> [a \in AgentIds |-> <<>>], set |-> {},
              adapter |-> [a \in AgentIds |-> AModel]]

\* the number of messages the agents of S hold beyond their seed
RECURSIVE Extra(_)
Extra(S) ==
    IF S = {} THEN 0
    ELSE LET a == CHOOSE x \in S : TRUE
         IN  (IF messages[a] = 0 THEN 0 ELSE Len(heap[messages[a]]) - 1) + Extra(S \ {a})

\* the Agent objects that exist
Built == {a \in AgentIds : adapter[a] # Absent}

\* the caller is between two calls, in a state from which the model goes on
Idle ==
    /\ stack = <<>>
    /\ Len(agents) <= MaxRegistry
    /\ Extra(AgentIds) < MaxHistory

Fresh(op) == [St EXCEPT !.trace = <<>>, !.outcome = Outcome(op, "pending", NoResp, NoError)]

\* the caller calls add_agent(x), x being an object that is no Agent or an
\* Agent it has not registered yet (an agent is registered again only when a
\* tool returns it)
AddAgent ==
    /\ Idle
    /\ Len(agents) < MaxRegistry
    /\ \E x \in (Built \ {agents[k] : k \in 1..Len(agents)}) \cup {NotAnAgent} :
        /\ pre' = Snapshot(St, "add_agent", NoneV, NoneV)
        /\ IF x \notin AgentIds
           THEN Commit(Raise(Fresh("add_agent"),
                             Error("ValueError", "Only Agent instances can be added", NoneV)))
           ELSE LET s == add_agent(Fresh("add_agent"), x)
                IN  Commit(Canon([s EXCEPT !.outcome =
                                    Outcome("add_agent", "ok", NoResp, NoError)]))

\* the caller calls run_agent(name, input)
CallRun ==
    /\ Idle
    /\ \E name \in Names, input \in Inputs :
        /\ pre' = Snapshot(St, "run_agent", name, input)
        /\ Commit([Fresh("run_agent") EXCEPT
                     !.stack = <<Frame(1, name, input)>>,
                     !.trace = <<Ev("call", 1, NoAgent, 0, 0, <<>>, NoResp)>>])

\* a run_agent call runs from its entry to its first response
RunStart ==
    /\ stack # <<>>
    /\ stack[Len(stack)].pc = "start"
    /\ \E r \in Responses : Commit(run_start(St, r))
    /\ UNCHANGED pre

\* a run_agent call processes the next tool call of its first response
Dispatch ==
    /\ stack # <<>>
    /\ stack[Len(stack)].pc = "dispatch"
    /\ stack[Len(stack)].ci <= Len(stack[Len(stack)].resp.tool_calls)
    /\ Commit(dispatch(St))
    /\ UNCHANGED pre

\* a run_agent call leaves the loop, generates again and returns
Finish ==
    /\ stack # <<>>
    /\ stack[Len(stack)].pc = "dispatch"
    /\ stack[Len(stack)].ci > Len(stack[Len(stack)].resp.tool_calls)
    /\ \E r \in Responses : Commit(finish(St, r))
    /\ UNCHANGED pre

\* the caller calls run_agent_stream(name, input)
RunStream ==
    /\ Idle
    /\ \E name \in Names, input \in Inputs, r \in Responses :
        /\ pre' = Snapshot(St, "run_agent_stream", name, input)
        /\ Commit(run_agent_stream(Fresh("run_agent_stream"), name, input, r))

Next == AddAgent \/ CallRun \/ RunStart \/ Dispatch \/ Finish \/ RunStream

Spec == Init /\ [][Next]_vars

\* every generation call and every tool invocation returns: a run_agent call
\* that can take its next step takes it
RunStep == RunStart \/ Dispatch \/ Finish

SpecLive == Spec /\ WF_vars(RunStep)

\* ------------------------------------------------- the Agent object by itself
\* `model is None or not isinstance(model, Model)`, negated
IsModel(x) == x = AModel

InvalidModel == Error("ValueError", "A valid instance of a Model subclass is required", NoneV)

\* Agent.__init__(name, instruction, model = x, tools): the object exists only
\* if the constructor returns; a new adapter has no messages and no options
agent_init(s, a, x) ==
    IF ~IsModel(x) THEN Raise(s, InvalidModel)
    ELSE [s EXCEPT !.adapter[a] = x,
                   !.outcome = Outcome(s.outcome.op, "ok", NoResp, NoError)]

\* Agent.set_model without its guard
set_model_unchecked(s, a, x) ==
    Canon([s EXCEPT !.adapter[a] = x,
                    !.messages[a] = 0,
                    !.kwargs[a] = [has_tools |-> FALSE, tools |-> <<>>],
                    !.outcome = Outcome(s.outcome.op, "ok", NoResp, NoError)])

\* Agent.set_model(x): x is a Model instance no agent has used, so the agent's
\* history and options become those of the new adapter
set_model(s, a, x) ==
    IF ~IsModel(x) THEN Raise(s, InvalidModel)
    ELSE Canon([s EXCEPT !.adapter[a] = x,
                         !.messages[a] = 0,
                         !.kwargs[a] = [has_tools |-> FALSE, tools |-> <<>>],
                         !.outcome = Outcome(s.outcome.op, "ok", NoResp, NoError)])

\* the Agent objects a caller of the Agent class builds, and
\* the lists a caller passes to Agent.set_messages
Constructible == {1, 2}
MessageLists == {<<>>, <<UserMsg("hi")>>}

\* Agent.get_response without its precondition
get_response_unchecked(s, a, r) ==
    LET s1 == Log(s, Ev("gen", 0, a, 0, 0, Hist(s, a), r))
    IN  [s1 EXCEPT !.outcome = Outcome(s.outcome.op, "ok", r, NoError)]

\* Agent.get_response: r is what the adapter's generate_response returns
get_response(s, a, r) ==
    IF s.messages[a] = 0 THEN Raise(s, MessagesNotSet)
    ELSE LET s1 == Log(s, Ev("gen", 0, a, 0, 0, Hist(s, a), r))
         IN  [s1 EXCEPT !.outcome = Outcome(s.outcome.op, "ok", r, NoError)]

\* Agent.get_response_stream: r is what the stream will carry
get_response_stream(s, a, r) ==
    IF s.messages[a] = 0 THEN Raise(s, StreamNotSet)
    ELSE LET s1 == Log(s, Ev("stream", 0, a, 0, 0, Hist(s, a), r))
         IN  [s1 EXCEPT !.outcome =
                [Outcome(s.outcome.op, "ok", r, NoError) EXCEPT !.stream = TRUE]]

\* a direct call on agent object a: the trace starts with the call
Direct(op, a) == [Fresh(op) EXCEPT !.trace = <<Ev("call", 0, a, 0, 0, <<>>, NoResp)>>]

\* no Agent object exists yet
InitAgent ==
    /\ agents = <<>>
    /\ heap = [a \in 1..MaxAgentId |-> <<>>]
    /\ messages = [a \in AgentIds |-> 0]
    /\ kwargs = [a \in AgentIds |-> [has_tools |-> FALSE, tools |-> <<>>]]
    /\ adapter = [a \in AgentIds |-> Absent]
    /\ stack = <<>>
    /\ outcome = Outcome("none", "none", NoResp, NoError)
    /\ trace = <<>>
    /\ pre = [op |-> "none", name |-> NoneV, input |-> NoneV, agents |-> <<>>,
              hist |-> [a \in AgentIds |-> <<>>], set |-> {},
              adapter |-> [a \in AgentIds |-> Absent]]

\* the caller evaluates Agent(..., model = x)
Construct ==
    /\ Idle
    /\ \E a \in Constructible \ Built, x \in ModelArgs :
        /\ pre' = Snapshot(St, "Agent", NoneV, x)
        /\ Commit(agent_init(Direct("Agent", a), a, x))

\* the caller calls a.set_model(x)
SetModel ==
    /\ Idle
    /\ \E a \in Built, x \in ModelArgs :
        /\ pre' = Snapshot(St, "set_model", NoneV, x)
        /\ Commit(set_model(Direct("set_model", a), a, x))

\* the caller calls a.set_messages(msgs)
SetMessages ==
    /\ Idle
    /\ \E a \in Built, msgs \in MessageLists :
        /\ pre' = Snapshot(St, "set_messages", NoneV, NoneV)
        /\ LET n == Alloc(Direct("set_messages", a), msgs)
               s == set_messages(n, a, Len(n.heap))
           IN  Commit(Canon([s EXCEPT !.outcome =
                               Outcome("set_messages", "ok", NoResp, NoError)]))

\* the caller calls a.get_response()
GetResponse ==
    /\ Idle
    /\ \E a \in Built, r \in Responses :
        /\ pre' = Snapshot(St, "get_response", NoneV, NoneV)
        /\ Commit(get_response(Direct("get_response", a), a, r))

\* the caller calls a.get_response_stream()
GetResponseStream ==
    /\ Idle
    /\ \E a \in Built, r \in Responses :
        /\ pre' = Snapshot(St, "get_response_stream", NoneV, NoneV)
        /\ Commit(get_response_stream(Direct("get_response_stream", a), a, r))

NextAgent ==
    \/ Construct \/ SetModel \/ SetMessages \/ GetResponse \/ GetResponseStream
    \/ AddAgent

SpecAgent == InitAgent /\ [][NextAgent]_vars

\* ------------------------------------------------- reading the history variables
Min(S) == CHOOSE i \in S : \A j \in S : i <= j
Max(S) == CHOOSE i \in S : \A j \in S : j <= i

\* positions in the trace of the events of one kind of one run_agent call
EvIdx(ev, fid) == {i \in 1..Len(trace) : trace[i].ev = ev /\ trace[i].frame = fid}
AllIdx(ev) == {i \in 1..Len(trace) : trace[i].ev = ev}

\* the caller's run_agent call is over / has returned a value
RunEnded == stack = <<>> /\ outcome.op = "run_agent" /\ outcome.status \in {"ok", "error"}
RunReturned == RunEnded /\ outcome.status = "ok"

\* the caller's run_agent call has made its first generation call
Generated == EvIdx("gen", 1) # {}
FirstGen == trace[Min(EvIdx("gen", 1))]
RunAgentId == FirstGen.agent
FirstResponse == FirstGen.resp
FirstCalls == FirstGen.resp.tool_calls

\* the tools of agent a that carry the name, in the order of a's tool list
Matching(a, name) ==
    {i \in 1..Len(AgentObj(a).tools) : Tool(AgentObj(a).tools[i]).name = name}

IsPrefix(p, q) == Len(p) <= Len(q) /\ SubSeq(q, 1, Len(p)) = p

\* ------------------------------------------------------------------ claims

\* C1: when run_agent returns after a first response that exposes N >= 1 tool
\* calls, the agent's history is its history at the first generation, then the
\* assistant message, then exactly N tool-role messages, the i-th tagged with
\* the id of the i-th call.
C1_OneToolMessagePerCall ==
    (RunReturned /\ Generated /\ FirstResponse.attr /\ FirstCalls # <<>>) =>
        LET h == Hist(St, RunAgentId)
            b == Len(FirstGen.hist) + 1
        IN  /\ Len(h) = b + Len(FirstCalls)
            /\ \A i \in 1..Len(FirstCalls) :
                /\ h[b + i].role = "tool"
                /\ h[b + i].tool_call_id = FirstCalls[i].id

\* C2: when the first response of the caller's run_agent call carries tool
\* calls, whatever its shape, run_agent has appended the assistant message
\* with the tool-call metadata and has dispatched every call that names a tool
\* of the agent before it returns.
C2_ToolCallsAreDispatched ==
    (RunReturned /\ Generated /\ FirstCalls # <<>>) =>
        /\ \E i \in 1..Len(Hist(St, RunAgentId)) :
              Hist(St, RunAgentId)[i] = AssistantMessage(FirstResponse)
        /\ \A c \in 1..Len(FirstCalls) :
              Matching(RunAgentId, FirstCalls[c].name) # {} =>
                  \E i \in EvIdx("tool", 1) : trace[i].call = c

\* C3: when run_agent returns after a tool returned an Agent X that was not
\* registered at the call, and an input was given, X is registered and X has
\* received a generation call on a history holding the user message of the
\* original input.
C3_DelegateReceivesInput ==
    (RunReturned /\ UserInputGiven(pre.input)) =>
        \A i \in AllIdx("add") :
            LET X == trace[i].agent IN
            (\A k \in 1..Len(pre.agents) : pre.agents[k] # X) =>
                /\ \E k \in 1..Len(agents) : agents[k] = X
                /\ \E g \in AllIdx("gen") :
                      /\ trace[g].agent = X
                      /\ \E m \in 1..Len(trace[g].hist) :
                            trace[g].hist[m] = UserMsg(pre.input)

\* C4: when the first response of the caller's run_agent call carries no tool
\* calls, run_agent returns that response, has generated once, invoked no tool
\* and registered no agent, leaves the registry and the other agents'
\* histories as they were, and has changed the agent's history by at most the
\* user message of the input: nothing for no input, the message for a text.
C4_NoToolCallsFrame ==
    (RunEnded /\ Generated /\ FirstCalls = <<>>) =>
        /\ outcome.status = "ok"
        /\ outcome.value = FirstResponse
        /\ Cardinality(AllIdx("gen")) = 1
        /\ AllIdx("tool") = {}
        /\ AllIdx("add") = {}
        /\ agents = pre.agents
        /\ \A a \in AgentIds \ {RunAgentId} : Hist(St, a) = pre.hist[a]
        /\ Hist(St, RunAgentId) \in
              {pre.hist[RunAgentId], pre.hist[RunAgentId] \o <<UserMsg(pre.input)>>}
        /\ pre.input = NoneV => Hist(St, RunAgentId) = pre.hist[RunAgentId]
        /\ pre.input \notin {NoneV, ""} =>
              Hist(St, RunAgentId) = pre.hist[RunAgentId] \o <<UserMsg(pre.input)>>

C4_Witness ==
    /\ RunReturned /\ Generated /\ FirstCalls = <<>>
    /\ pre.input = "hi"
    /\ Len(agents) = 2
    /\ Len(Hist(St, RunAgentId)) = 2

\* C5: a run_agent call that has returned made at most two generation calls;
\* one whose first response entered the tool branch made exactly two, returned
\* the second response also when it carries tool calls, invoked no tool and
\* registered no agent after it, and (for the caller's call) left the history
\* as it was at the second generation.  A turn in which no tool returned an
\* Agent made at most two generation calls.
C5_SinglePass ==
    /\ \A x \in AllIdx("ret") :
          LET fid == trace[x].frame
              g == EvIdx("gen", fid)
          IN  /\ g # {}
              /\ Cardinality(g) <= 2
              /\ (trace[Min(g)].resp.attr /\ trace[Min(g)].resp.tool_calls # <<>>) =>
                    /\ Cardinality(g) = 2
                    /\ trace[x].resp = trace[Max(g)].resp
                    /\ \A i \in EvIdx("tool", fid) : i < Max(g)
                    /\ x = Max(g) + 1
    /\ (RunReturned /\ Generated /\ FirstResponse.attr /\ FirstCalls # <<>>) =>
          /\ outcome.value = trace[Max(EvIdx("gen", 1))].resp
          /\ Hist(St, RunAgentId) = trace[Max(EvIdx("gen", 1))].hist
    /\ AllIdx("add") = {} => Cardinality(AllIdx("gen")) <= 2

C5_Witness ==
    /\ RunReturned /\ Generated
    /\ FirstResponse.attr /\ FirstCalls # <<>>
    /\ outcome.value.attr /\ outcome.value.tool_calls # <<>>
    /\ AllIdx("tool") # {}
    /\ Cardinality(EvIdx("gen", 1)) = 2

\* the descriptors set_tools is to store for agent a: one for every invocable
\* tool of a's tool set, in order
InvocableTools(a) == SelectSeq(AgentObj(a).tools, LAMBDA t : Tool(t).callable)

Seeded(a, h, k) ==
    /\ h = <<Msg("assistant", AgentObj(a).instruction, NoneV, <<>>)>>
    /\ k.has_tools
    /\ Len(k.tools) = Len(InvocableTools(a))
    /\ \A i \in 1..Len(k.tools) :
          k.tools[i] = [type |-> "function", name |-> Tool(InvocableTools(a)[i]).name]

\* the agent add_agent has just returned for (0 when the last step was no return of add_agent)
JustAdded ==
    LET n == Len(trace) IN
    IF n >= 1 /\ trace[n].ev = "add" THEN trace[n].agent
    ELSE IF n >= 2 /\ trace[n].ev = "call" /\ trace[n - 1].ev = "add" THEN trace[n - 1].agent
    ELSE NoAgent

\* C6: right after add_agent(a) returns, from the caller or inside a run, a's
\* history is the single assistant message of its instruction and the 'tools'
\* option holds one descriptor per invocable tool of a; every generation call
\* is made for an agent registered before it, on a history that starts with
\* that seed.
C6_RegistrationSeeds ==
    /\ JustAdded # NoAgent => Seeded(JustAdded, Hist(St, JustAdded), kwargs[JustAdded])
    /\ \A i \in AllIdx("add") :
          trace[i].hist = <<Msg("assistant", AgentObj(trace[i].agent).instruction, NoneV, <<>>)>>
    /\ \A g \in AllIdx("gen") \cup AllIdx("stream") :
          LET a == trace[g].agent IN
          /\ \/ \E k \in 1..Len(pre.agents) : pre.agents[k] = a
             \/ \E i \in AllIdx("add") : i < g /\ trace[i].agent = a
          /\ trace[g].hist # <<>>
          /\ trace[g].hist[1] = Msg("assistant", AgentObj(a).instruction, NoneV, <<>>)
    /\ \A k \in 1..Len(agents) : messages[agents[k]] # 0 /\ kwargs[agents[k]].has_tools

C6_Witness ==
    /\ stack # <<>>
    /\ JustAdded # NoAgent
    /\ \A k \in 1..Len(pre.agents) : pre.agents[k] # JustAdded
    /\ Len(InvocableTools(JustAdded)) < Len(AgentObj(JustAdded).tools)

\* the first response of the run_agent call with serial number fid
FirstRespOf(fid) == trace[Min(EvIdx("gen", fid))].resp

\* C7: every tool invoked for a tool call is the first tool of the agent's
\* tool set that carries the called name, and no call has two tools invoked.
C7_FirstMatchWins ==
    \A i \in AllIdx("tool") :
        LET e == trace[i]
            nm == FirstRespOf(e.frame).tool_calls[e.call].name
        IN  /\ e.tool = AgentObj(e.agent).tools[Min(Matching(e.agent, nm))]
            /\ \A j \in AllIdx("tool") :
                  (trace[j].frame = e.frame /\ trace[j].call = e.call) => j = i

\* C8: when a tool call of the first response names no tool of the agent, the
\* caller's run_agent call ends with an error and has made one generation call.
C8_UnknownToolFails ==
    (RunEnded /\ Generated /\ FirstResponse.attr
       /\ \E c \in 1..Len(FirstCalls) : Matching(RunAgentId, FirstCalls[c].name) = {}) =>
        /\ outcome.status = "error"
        /\ Cardinality(EvIdx("gen", 1)) = 1

\* C9: no two entries of the registry carry the same name.
C9_NamesUnique ==
    \A i, j \in 1..Len(agents) :
        i # j => AgentObj(agents[i]).name # AgentObj(agents[j]).name

\* C10: run_agent and run_agent_stream with a name that no registered agent
\* carries end with the not-found error naming that name, make no generation
\* call and change neither the registry nor any history.
C10_UnknownNameFails ==
    (/\ stack = <<>>
     /\ outcome.op \in {"run_agent", "run_agent_stream"}
     /\ outcome.status \in {"ok", "error"}
     /\ \A k \in 1..Len(pre.agents) : AgentObj(pre.agents[k]).name # pre.name) =>
        /\ outcome.status = "error"
        /\ outcome.err = [type |-> "ValueError", text |-> "No agent found with name: ",
                          arg |-> pre.name]
        /\ AllIdx("gen") \cup AllIdx("stream") = {}
        /\ agents = pre.agents
        /\ \A a \in AgentIds : Hist(St, a) = pre.hist[a]
        /\ {a \in AgentIds : messages[a] # 0} = pre.set

C10_Witness ==
    /\ stack = <<>>
    /\ outcome.op = "run_agent_stream"
    /\ outcome.status = "error"
    /\ outcome.err.arg = "ghost"
    /\ Len(pre.agents) = 2


\* C11: get_response and get_response_stream on an agent whose history was
\* never set end with the precondition error and make no adapter call; on an
\* agent whose history was set (by set_messages or by registration) they make
\* exactly one adapter call of their kind, on that history, and return what the
\* adapter returned. Neither changes the registry or any history.
C11_ResponseNeedsHistory ==
    outcome.op \in {"get_response", "get_response_stream"} =>
        LET a == trace[1].agent
            kind == IF outcome.op = "get_response" THEN "gen" ELSE "stream"
            made == AllIdx("gen") \cup AllIdx("stream")
        IN  /\ agents = pre.agents
            /\ \A b \in AgentIds : Hist(St, b) = pre.hist[b]
            /\ IF a \notin pre.set
               THEN /\ outcome.status = "error"
                    /\ outcome.err = (IF kind = "gen" THEN MessagesNotSet ELSE StreamNotSet)
                    /\ made = {}
               ELSE /\ outcome.status = "ok"
                    /\ Cardinality(made) = 1
                    /\ \A i \in made :
                          /\ trace[i].ev = kind
                          /\ trace[i].agent = a
                          /\ trace[i].hist = pre.hist[a]
                          /\ outcome.value = trace[i].resp
                    /\ outcome.stream = (kind = "stream")

\* get_response fails on an agent that exists and was never given a history
C11_Witness ==
    /\ outcome.op = "get_response"
    /\ outcome.status = "error"
    /\ trace[1].agent \in Built \ pre.set

\* get_response_stream succeeds on an agent whose only history is its seed
C11_AfterRegistration ==
    /\ outcome.op = "get_response_stream"
    /\ outcome.status = "ok"
    /\ pre.hist[trace[1].agent] = SeedMessages(trace[1].agent)


\* C12: run_agent_stream on a registered agent makes exactly one streaming
\* generation call and no other call, invokes no tool, registers no agent,
\* leaves the history as it was but for the one user message of a non-empty
\* input, and returns the adapter's stream as it is, whatever it carries.
C12_StreamNoInterception ==
    (/\ stack = <<>>
     /\ outcome.op = "run_agent_stream"
     /\ get_agent(pre.agents, pre.name) # NoAgent) =>
        LET a == get_agent(pre.agents, pre.name)
        IN  /\ outcome.status = "ok"
            /\ outcome.stream
            /\ Cardinality(AllIdx("stream")) = 1
            /\ AllIdx("gen") \cup AllIdx("tool") \cup AllIdx("add") = {}
            /\ \A i \in AllIdx("stream") :
                  /\ trace[i].agent = a
                  /\ trace[i].hist = Hist(St, a)
                  /\ outcome.value = trace[i].resp
            /\ agents = pre.agents
            /\ \A b \in AgentIds \ {a} : Hist(St, b) = pre.hist[b]
            /\ Hist(St, a) = IF UserInputGiven(pre.input)
                             THEN pre.hist[a] \o <<UserMsg(pre.input)>>
                             ELSE pre.hist[a]

\* a stream that carries tool calls has been returned for a non-empty input
C12_Witness ==
    /\ stack = <<>>
    /\ outcome.op = "run_agent_stream"
    /\ outcome.status = "ok"
    /\ pre.input = "hi"
    /\ EntersToolBranch(outcome.value)


\* C13: set_tools never completes with an entry that is not invocable left out
\* of the serialized list: an agent whose adapter holds a 'tools' option has
\* only invocable entries in its tool list.
C13_SetToolsRejectsNonInvocable ==
    \A a \in AgentIds :
        kwargs[a].has_tools =>
            \A i \in 1..Len(AgentObj(a).tools) : Tool(AgentObj(a).tools[i]).callable


\* C14: every Agent object that exists, hence every registry entry, holds an
\* instance of a Model subclass as its adapter; constructing an Agent with None
\* or with an object that is no Model fails and no object comes to exist;
\* set_model with such a value fails and leaves adapter, history and options as
\* they were.
C14_AlwaysValidAdapter ==
    /\ \A a \in AgentIds : adapter[a] \in {Absent, AModel}
    /\ \A k \in 1..Len(agents) : adapter[agents[k]] = AModel
    /\ outcome.op \in {"Agent", "set_model"} =>
          LET a == trace[1].agent
          IN  IF pre.input = AModel
              THEN /\ outcome.status = "ok"
                   /\ adapter = [pre.adapter EXCEPT ![a] = AModel]
              ELSE /\ outcome.status = "error"
                   /\ outcome.err = InvalidModel
                   /\ adapter = pre.adapter
                   /\ \A b \in AgentIds : Hist(St, b) = pre.hist[b]
                   /\ {b \in AgentIds : messages[b] # 0} = pre.set

\* set_model with an object that is no Model has failed on a registered agent
C14_Witness ==
    /\ outcome.op = "set_model"
    /\ outcome.status = "error"
    /\ pre.input = NotAModel
    /\ \E k \in 1..Len(agents) : agents[k] = trace[1].agent


\* every delegated run so far resolved its name to the agent the tool returned
Resolved ==
    \A i \in AllIdx("call") :
        \A j \in EvIdx("gen", trace[i].frame) :
            trace[i].frame > 1 => trace[j].agent = trace[i].agent

AllToolRole(h, from) == \A k \in from..Len(h) : h[k].role = "tool"

C16_AppendOnlyWithinTurn ==
    [][stack # <<>> =>
          \A a \in AgentIds :
              IsPrefix(IF messages[a] = 0 THEN <<>> ELSE heap[messages[a]],
                       IF messages'[a] = 0 THEN <<>> ELSE heap'[messages'[a]])]_vars


\* the tool invocations so far that returned an Agent
Delegations == {i \in AllIdx("tool") : Tool(trace[i].tool).ret.kind = "agent"}

\* the run_agent calls that are waiting for the run_agent call they made
Delegating == {k \in 1..Len(stack) : stack[k].pc = "awaiting"}

AllDelegate ==
    /\ outcome.op = "run_agent"
    /\ Generated
    /\ \A g \in AllIdx("gen") :
          LET r == trace[g].resp
              a == trace[g].agent
          IN  /\ EntersToolBranch(r)
              /\ JsonOk(r.tool_calls[1].arguments)
              /\ Matching(a, r.tool_calls[1].name) # {}
              /\ \A i \in Matching(a, r.tool_calls[1].name) :
                    Tool(AgentObj(a).tools[i]).ret.kind = "agent"

\* C18: nothing guards against a delegation chain that does not end: as long
\* as every response delegates, the run has not returned and no run_agent call
\* of it has returned, no call has made a second generation call, every call
\* made is still on the stack, so that the depth is the number of calls made,
\* and the registry has gained one entry for each delegation, whether or not
\* the agent was registered already.  Nothing but the depth limit of the
\* runtime (MaxDepth) ends such a run.
C18_NoRecursionGuard ==
    AllDelegate =>
        /\ outcome.status # "ok"
        /\ AllIdx("ret") = {}
        /\ \A c \in AllIdx("call") : Cardinality(EvIdx("gen", trace[c].frame)) <= 1
        /\ Len(agents) = Len(pre.agents) + Cardinality(Delegations)
        /\ stack # <<>> => /\ Len(stack) = Cardinality(AllIdx("call"))
                           /\ Len(stack) \in {Cardinality(Delegations),
                                              Cardinality(Delegations) + 1}
        /\ stack = <<>> => /\ outcome.status = "error"
                           /\ outcome.err.type = "RecursionError"
                           /\ Cardinality(Delegations) = MaxDepth

\* agent a delegated to agent b, b delegated back to a, and the run was ended
\* by the depth limit with the registry one entry longer for each delegation
C18_Witness ==
    /\ AllDelegate
    /\ RunEnded
    /\ \E i, j \in Delegations :
          /\ i < j
          /\ Tool(trace[i].tool).ret = AgentVal(trace[j].agent)
          /\ Tool(trace[j].tool).ret = AgentVal(trace[i].agent)
    /\ \E k \in 1..Len(pre.agents) : pre.agents[k] = agents[Len(agents)]


\* the calls of response r whose argument payload does not deserialize
Malformed(r) == {k \in 1..Len(r.tool_calls) : ~JsonOk(r.tool_calls[k].arguments)}

\* the run ended with a deserialization error raised by the run_agent call
\* fid: every run_agent call made after it has returned
FailedIn(fid) ==
    /\ RunEnded
    /\ outcome.err.type = "JSONDecodeError"
    /\ \A c \in AllIdx("call") :
          trace[c].frame > fid => EvIdx("ret", trace[c].frame) # {}

\* C19: a run_agent call, nested or not, whose first response carries tool
\* calls of which the k-th is the first with a payload that does not
\* deserialize, invokes no tool for call k or a later call, makes no second
\* generation call and does not return; the caller's run ends with an error;
\* and when it is this call that raised, the error carries the payload of call
\* k and every tool matching a call before k has been invoked, in the order of
\* the calls, each returned Agent having been registered and run to its return.
C19_MalformedPayloadStops ==
    \A c \in AllIdx("call") :
        LET fid == trace[c].frame
            gens == EvIdx("gen", fid)
            tls == EvIdx("tool", fid)
        IN  (/\ gens # {}
             /\ EntersToolBranch(trace[Min(gens)].resp)
             /\ Malformed(trace[Min(gens)].resp) # {}) =>
            LET r == trace[Min(gens)].resp
                a == trace[Min(gens)].agent
                k == Min(Malformed(r))
            IN  /\ \A i \in tls : trace[i].call < k
                /\ \A i, j \in tls : i < j => trace[i].call <= trace[j].call
                /\ Cardinality(gens) = 1
                /\ EvIdx("ret", fid) = {}
                /\ RunEnded => outcome.status = "error"
                /\ FailedIn(fid) =>
                      /\ outcome.err.text = r.tool_calls[k].arguments
                      /\ \A j \in 1..(k - 1) :
                            \A m \in Matching(a, r.tool_calls[j].name) :
                               \E i \in tls :
                                  /\ trace[i].call = j
                                  /\ trace[i].tool = AgentObj(a).tools[m]
                                  /\ Tool(trace[i].tool).ret.kind = "agent" =>
                                        \E d \in AllIdx("add"), n \in AllIdx("call") :
                                           /\ i < d /\ d < n
                                           /\ trace[d].agent = Tool(trace[i].tool).ret.agent
                                           /\ trace[n].agent = trace[d].agent
                                           /\ EvIdx("ret", trace[n].frame) # {}

\* the second call of the caller's run was malformed after the tool of the
\* first call had returned an Agent and the run of that agent had returned
C19_Witness ==
    /\ FailedIn(1)
    /\ Generated
    /\ Malformed(FirstResponse) = {2}
    /\ \E i \in EvIdx("tool", 1) : Tool(trace[i].tool).ret.kind = "agent"
    /\ EvIdx("ret", 2) # {}

=============================================================================
